---- MODULE Spec2Model ----
(***************************************************************************)
(* Model of mic_recorder.py: the busy-wait Sampler, the rolling (Welford)   *)
(* variance Estimator, the unbounded Channel and the file-rotating Writer.  *)
(*                                                                          *)
(* Time is counted in clock ticks, TicksPerSec ticks to the second.  A      *)
(* float of the program is modelled by the exact rational it stands for, a  *)
(* pair <<numerator, denominator>> in lowest terms.                         *)
(***************************************************************************)
EXTENDS Integers, Sequences, FiniteSets, TLC

\* ------------------------------------------------------------------ bounds
TicksPerSec == 2        \* resolution of the modelled clock
MaxClock    == 3        \* the clock stops advancing here
MaxFeed     == 5        \* SpecEst: longest voltage sequence fed
MaxCap      == 3        \* SpecEst: largest window capacity

\* ------------------------------------------------------ exact arithmetic
Abs(i) == IF i < 0 THEN -i ELSE i

RECURSIVE Gcd(_, _)
Gcd(a, b) == IF b = 0 THEN a ELSE Gcd(b, a % b)

\* the rational a/b (b # 0) in lowest terms with a positive denominator
Rat(a, b) ==
    LET g == Gcd(Abs(a), Abs(b))
        s == IF b < 0 THEN -1 ELSE 1
    IN  <<(s * a) \div g, (s * b) \div g>>

RZero == <<0, 1>>
RInt(i) == <<i, 1>>
Lcm(a, b) == (a \div Gcd(a, b)) * b
RAdd(p, q) ==
    LET l == Lcm(p[2], q[2])
    IN  Rat(p[1] * (l \div p[2]) + q[1] * (l \div q[2]), l)
RNeg(p) == <<-p[1], p[2]>>
RSub(p, q) == RAdd(p, RNeg(q))
RMul(p, q) ==       \* cross-reduced first, to keep the products small
    LET g1 == Gcd(Abs(p[1]), q[2])
        g2 == Gcd(Abs(q[1]), p[2])
    IN  Rat((p[1] \div g1) * (q[1] \div g2), (p[2] \div g2) * (q[2] \div g1))
RDivInt(p, i) == RMul(p, Rat(1, i))
RLt(p, q) == p[1] * q[2] < q[1] * p[2]

\* Python's int(): truncation toward zero of a/b, b > 0
TruncDiv(a, b) == IF a >= 0 THEN a \div b ELSE -((-a) \div b)

\* f"{x:.<places>f}": x rounded to <places> decimals (ties to even), as the
\* integer number of 10^-places units that the text denotes; long division
RECURSIVE Shift(_, _, _)
Shift(qr, den, k) ==    \* <<q, r>> with q + r/den = 10^k * (qr[1] + qr[2]/den)
    IF k = 0 THEN qr
    ELSE Shift(<<10 * qr[1] + (10 * qr[2]) \div den, (10 * qr[2]) % den>>, den, k - 1)

FormatFixed(x, places) ==
    LET a    == Abs(x[1])
        qr   == Shift(<<a \div x[2], a % x[2]>>, x[2], places)
        up   == 2 * qr[2] > x[2] \/ (2 * qr[2] = x[2] /\ qr[1] % 2 = 1)
        m    == IF up THEN qr[1] + 1 ELSE qr[1]
    IN  IF x[1] < 0 THEN -m ELSE m

\* ------------------------------------------------------------- Signal Source
ADC_FULL_SCALE == 1023
RawCodes == {0, 310, 620}       \* codes tried: 0 V, 1 V and 2 V
\* the synthetic Signal Source of a run: a square wave, 2 V on the first read
SourceCode(k) == IF k % 2 = 1 THEN 620 ELSE 0
NoValue == <<"None">>           \* Python's None
NoCode == -1                    \* None, where a raw ADC code is expected
NoFile == 0                     \* csvfile = None
Unbound == -1                   \* a local not yet assigned (times are >= 0)

\* read_differential: voltage = (raw_value / 1023.0) * 3.3
VoltageOf(raw_value) == Rat(raw_value * 33, ADC_FULL_SCALE * 10)

Voltages == {VoltageOf(r) : r \in RawCodes}

\* ------------------------------------------------------------------ state
VARIABLES
    \* configuration (argparse results); times in ticks
    frequency,          \* --frequency, Hz (int)
    duration,           \* --duration, in ticks
    variance_window,    \* --window, in ticks
    rotate_minutes,     \* --rotate, minutes, a rational
    \* clocks
    clock,              \* time.perf_counter(), in ticks
    \* ContactMicRecorder fields
    variance_samples,   \* self.variance_samples (deque maxlen)
    n, mean, M2,        \* self.n, self.mean, self.M2
    voltage_buffer,     \* self.voltage_buffer
    \* record(): Sampler locals
    spc,                \* Sampler's position
    start_time, next_time, timestamp,
    voltage, raw, var,
    sample_count, total_samples,
    \* Channel
    queue,              \* queue.Queue(): items not yet taken
    sent,               \* history: every item ever put on the queue
    \* writer_worker locals
    wpc,                \* Writer's position
    item,               \* the item the Writer holds
    next_rotate_time,
    csvfile,            \* the current file object: its index in opened, or NoFile
    files,              \* disk: file name -> rows (header excluded)
    opened,             \* history: names given to open(), in order
    opened_at,          \* history: the perf_counter() time of each of them
    written,            \* history: rows handed to writer.writerow, in order
    unclosed,           \* set of file objects opened and not closed
    \* history of the Estimator's inputs and of the Signal Source
    fed,                \* voltages ingested so far
    reads,              \* number of Signal Source reads performed
    interrupted         \* history: a KeyboardInterrupt ended the loop

cfgVars == <<frequency, duration, variance_window, rotate_minutes>>
estVars == <<variance_samples, n, mean, M2, voltage_buffer, fed>>
smpVars == <<spc, start_time, next_time, timestamp, voltage, raw, var,
             sample_count, total_samples, reads, interrupted>>
chanVars == <<queue, sent>>
wrVars == <<wpc, item, next_rotate_time, csvfile, files, opened, opened_at, written,
            unclosed>>
vars == <<cfgVars, clock, estVars, smpVars, chanVars, wrVars>>

\* ------------------------------------------------------ Rolling Estimator
PopVar(w) ==    \* population variance of the sequence w, from scratch
    LET RECURSIVE Sum(_)
        Sum(k) == IF k = 0 THEN RZero ELSE RAdd(w[k], Sum(k - 1))
        m == RDivInt(Sum(Len(w)), Len(w))
        RECURSIVE SqDev(_)
        SqDev(k) == IF k = 0 THEN RZero
                    ELSE RAdd(RMul(RSub(w[k], m), RSub(w[k], m)), SqDev(k - 1))
    IN  RDivInt(SqDev(Len(w)), Len(w))

ArithMean(w) ==
    LET RECURSIVE Sum(_)
        Sum(k) == IF k = 0 THEN RZero ELSE RAdd(w[k], Sum(k - 1))
    IN  RDivInt(Sum(Len(w)), Len(w))

LastN(s, k) == SubSeq(s, Len(s) - k + 1, Len(s))

\* deque(maxlen=m).append(x)
DequeAppend(buf, x, m) ==
    IF m = 0 THEN <<>>
    ELSE IF Len(buf) >= m THEN Append(Tail(buf), x)
    ELSE Append(buf, x)

\* mutant: the sample variance, M2 / (n - 1)
calculate_variance_Sample(n_, M2_) == IF n_ > 1 THEN RDivInt(M2_, n_ - 1) ELSE RZero

\* calculate_variance
calculate_variance(n_, M2_) == IF n_ > 1 THEN RDivInt(M2_, n_) ELSE RZero

\* full-window M2 increment: delta_new * (x - mean) - delta_old * delta_old2
M2Slide(x, old, old_mean, new_mean) ==
    LET delta_old  == RSub(old, old_mean)
        delta_new  == RSub(x, new_mean)
        delta_old2 == RSub(old, new_mean)
    IN  RSub(RMul(delta_new, RSub(x, new_mean)), RMul(delta_old, delta_old2))

\* mutant: the full-window mean update does not take the evicted value out
Ingest_MeanKeepsOld(e, x, cap) ==
    IF e.n < cap
    THEN IF x = NoValue
         THEN [e EXCEPT !.n = e.n + 1, !.ok = FALSE]     \* x - self.mean raises
         ELSE LET n1     == e.n + 1
                  delta  == RSub(x, e.mean)
                  mean1  == RAdd(e.mean, RDivInt(delta, n1))
                  delta2 == RSub(x, mean1)
              IN  [n |-> n1, mean |-> mean1,
                   M2 |-> RAdd(e.M2, RMul(delta, delta2)),
                   buf |-> DequeAppend(e.buf, x, cap), ok |-> TRUE]
    ELSE IF e.buf = <<>>
         THEN [e EXCEPT !.ok = FALSE]                     \* popleft raises
         ELSE LET old == Head(e.buf)
                  buf1 == DequeAppend(Tail(e.buf), x, cap)
              IN  IF x = NoValue                          \* ... - old + x raises
                  THEN [e EXCEPT !.buf = buf1, !.ok = FALSE]
                  ELSE LET mean1 == RDivInt(RAdd(RMul(e.mean, RInt(e.n)), x), e.n)
                       IN  [n |-> e.n, mean |-> mean1,
                            M2 |-> RAdd(e.M2, M2Slide(x, old, e.mean, mean1)),
                            buf |-> buf1, ok |-> TRUE]

\* The estimator update of record(), lines 143-161, on a state
\* e = [n, mean, M2, buf] with window capacity cap and input x.
\* The result carries ok = FALSE where the code raises (None arithmetic,
\* popleft from an empty deque); the fields then hold what was assigned
\* before the exception.
Ingest(e, x, cap) ==
    IF e.n < cap
    THEN IF x = NoValue
         THEN [e EXCEPT !.n = e.n + 1, !.ok = FALSE]     \* x - self.mean raises
         ELSE LET n1     == e.n + 1
                  delta  == RSub(x, e.mean)
                  mean1  == RAdd(e.mean, RDivInt(delta, n1))
                  delta2 == RSub(x, mean1)
              IN  [n |-> n1, mean |-> mean1,
                   M2 |-> RAdd(e.M2, RMul(delta, delta2)),
                   buf |-> DequeAppend(e.buf, x, cap), ok |-> TRUE]
    ELSE IF e.buf = <<>>
         THEN [e EXCEPT !.ok = FALSE]                     \* popleft raises
         ELSE LET old == Head(e.buf)
                  buf1 == DequeAppend(Tail(e.buf), x, cap)
              IN  IF x = NoValue                          \* ... - old + x raises
                  THEN [e EXCEPT !.buf = buf1, !.ok = FALSE]
                  ELSE LET mean1 == RDivInt(RAdd(RSub(RMul(e.mean, RInt(e.n)), old), x), e.n)
                       IN  [n |-> e.n, mean |-> mean1,
                            M2 |-> RAdd(e.M2, M2Slide(x, old, e.mean, mean1)),
                            buf |-> buf1, ok |-> TRUE]

EstState == [n |-> n, mean |-> mean, M2 |-> M2, buf |-> voltage_buffer, ok |-> TRUE]

\* ------------------------------------------------------------ configuration
SEC_PER_MIN == 60

\* argparse accepts any int / float: the values tried, valid and invalid
Frequencies == {-1, 0, 1, 2}
Durations   == {0, 1, 2, 3}                     \* ticks
Windows     == {-TicksPerSec, 1, TicksPerSec}   \* ticks
Rotations   == {Rat(-1, SEC_PER_MIN), RZero,
                Rat(1, SEC_PER_MIN * TicksPerSec), Rat(1, SEC_PER_MIN)}

\* rotate_minutes * 60.0 seconds as a whole number of ticks: the clock is
\* integral, so  perf_counter() >= t + r  iff  clock >= t + ceiling(r)
RotateDelay(rot) ==
    LET r == RMul(rot, RInt(SEC_PER_MIN * TicksPerSec))
    IN  -((-r[1]) \div r[2])

\* self.sample_interval = 1.0 / frequency, in ticks
sample_interval == Rat(TicksPerSec, frequency)

\* mutant: int(seconds), the frequency forgotten
IntTimesFreq_NoFreq(ticks, f) == TruncDiv(ticks, TicksPerSec)

\* int(seconds * frequency) for a time given in ticks
IntTimesFreq(ticks, f) == TruncDiv(ticks * f, TicksPerSec)

ValidConfig ==
    /\ frequency > 0 /\ duration > 0 /\ variance_window > 0
    /\ ~RLt(rotate_minutes, RZero)

\* ------------------------------------------------------------------- Init
IdleEstimator ==
    /\ n = 0 /\ mean = RZero /\ M2 = RZero /\ voltage_buffer = <<>>
    /\ fed = <<>>

IdleSampler ==
    /\ start_time = 0 /\ next_time = RZero
    /\ timestamp = Unbound /\ voltage = NoValue /\ raw = NoCode
    /\ var = RZero /\ sample_count = 0 /\ total_samples = 0 /\ reads = 0
    /\ interrupted = FALSE

NoWriterFiles ==
    /\ item = NoValue /\ next_rotate_time = 0
    /\ csvfile = NoFile /\ files = <<>> /\ opened = <<>> /\ written = <<>>
    /\ opened_at = <<>>
    /\ unclosed = {}

IdleWriter == wpc = "idle" /\ NoWriterFiles

Init ==
    /\ frequency \in Frequencies
    /\ duration \in Durations
    /\ variance_window \in Windows
    /\ rotate_minutes \in Rotations
    /\ clock = 0
    /\ variance_samples = 0
    /\ IdleEstimator
    /\ spc = "new"
    /\ IdleSampler
    /\ queue = <<>> /\ sent = <<>>
    /\ IdleWriter

\* ------------------------------------------------------------------ clock
SamplerActive == spc \in {"poll", "put", "count", "stop", "join"}
WriterActive == wpc \in {"start", "get", "write"}

Tick ==
    /\ clock < MaxClock
    /\ SamplerActive \/ WriterActive
    /\ clock' = clock + 1
    /\ UNCHANGED <<cfgVars, estVars, smpVars, chanVars, wrVars>>

\* ---------------------------------------------------------------- Sampler
\* ContactMicRecorder.__init__
Construct ==
    /\ spc = "new"
    /\ IF frequency = 0
       THEN /\ spc' = "crashed"                 \* 1.0 / frequency raises
            /\ UNCHANGED variance_samples
       ELSE /\ variance_samples' = IntTimesFreq(variance_window, frequency)
            /\ \/ spc' = "exited"               \* MCP3008 init fails: sys.exit(1)
               \/ spc' = IF variance_samples' < 0
                         THEN "crashed"         \* deque(maxlen < 0) raises
                         ELSE "constructed"
    /\ UNCHANGED <<cfgVars, clock, n, mean, M2, voltage_buffer, fed,
                   start_time, next_time, timestamp, voltage, raw, var,
                   sample_count, total_samples, reads, interrupted, chanVars, wrVars>>

\* record(), lines 85-132: the Channel, the Writer thread, the schedule
RecordStart ==
    /\ spc = "constructed"
    /\ wpc' = "start"
    /\ total_samples' = IntTimesFreq(duration, frequency)
    /\ start_time' = clock
    /\ next_time' = RInt(clock)
    /\ sample_count' = 0
    /\ spc' = "poll"
    /\ UNCHANGED <<cfgVars, clock, estVars, timestamp, voltage, raw, var,
                   reads, interrupted, chanVars, item, next_rotate_time, csvfile, files,
                   opened, opened_at, written, unclosed>>

\* mutant: the operands swapped
Timestamp_Reversed(now_, start_) == start_ - now_

\* timestamp = now - start_time
Timestamp(now_, start_) == now_ - start_

\* lines 136-161, one pass of the loop up to calculate_variance: poll the
\* clock (now = time.perf_counter()); when the tick is due read the source,
\* stamp the sample and update the estimator
SamplerPoll ==
    /\ spc = "poll"
    /\ LET now == clock
       IN  IF RLt(RInt(now), next_time)
           THEN UNCHANGED <<spc, voltage, raw, timestamp, reads, var,
                            n, mean, M2, voltage_buffer, fed>>      \* continue
           ELSE \E r \in {SourceCode(reads + 1), NoCode} :   \* None: the read failed
                   LET v == IF r = NoCode THEN NoValue ELSE VoltageOf(r)
                       e == Ingest(EstState, v, variance_samples)
                   IN  /\ reads' = reads + 1
                       /\ raw' = r /\ voltage' = v
                       /\ timestamp' = Timestamp(now, start_time)
                       /\ n' = e.n /\ mean' = e.mean /\ M2' = e.M2
                       /\ voltage_buffer' = e.buf
                       /\ IF e.ok
                          THEN /\ var' = calculate_variance(e.n, e.M2)
                               /\ fed' = Append(fed, v)
                               /\ spc' = "put"
                          ELSE /\ spc' = "crashed"  \* uncaught TypeError / IndexError
                               /\ UNCHANGED <<var, fed>>
    /\ UNCHANGED <<cfgVars, clock, variance_samples, start_time, next_time,
                   sample_count, total_samples, interrupted, chanVars, wrVars>>

\* mutant: a bounded queue, Queue(maxsize=1)
PutBlocks_Bounded(q) == Len(q) >= 1

\* queue.Queue() has maxsize 0: put never blocks
maxsize == 0
PutBlocks(q) == maxsize > 0 /\ Len(q) >= maxsize

\* the tuple put on the queue; id is its position in the history sent
SampleItem == [id |-> Len(sent) + 1, timestamp |-> timestamp,
               voltage |-> voltage, raw |-> raw, var |-> var]
stop_signal == [id |-> 0]

\* line 163: queue.put((timestamp, voltage, raw, var))
SamplerPut ==
    /\ spc = "put"
    /\ ~PutBlocks(queue)
    /\ queue' = Append(queue, SampleItem)
    /\ sent' = Append(sent, SampleItem)
    /\ spc' = "count"
    /\ UNCHANGED <<cfgVars, clock, estVars, start_time, next_time,
                   timestamp, voltage, raw, var, sample_count, total_samples,
                   reads, interrupted, wrVars>>

\* line 172: the loop's exit test
LoopEnds(ts, count, dur, total) == ts >= dur \/ count >= total

\* mutant: the schedule restarts from the time of the sample just taken,
\* next_time = now + sample_interval
SamplerCount_FromNow ==
    /\ spc = "count"
    /\ sample_count' = sample_count + 1
    /\ next_time' = RAdd(RInt(start_time + timestamp), sample_interval)
    /\ spc' = IF LoopEnds(timestamp, sample_count', duration, total_samples)
              THEN "stop" ELSE "poll"
    /\ UNCHANGED <<cfgVars, clock, estVars, start_time, timestamp,
                   voltage, raw, var, total_samples, reads, interrupted, chanVars, wrVars>>

\* lines 164-173: count the sample, advance the schedule, test for the end
SamplerCount ==
    /\ spc = "count"
    /\ sample_count' = sample_count + 1
    /\ next_time' = RAdd(next_time, sample_interval)
    /\ spc' = IF LoopEnds(timestamp, sample_count', duration, total_samples)
              THEN "stop" ELSE "poll"
    /\ UNCHANGED <<cfgVars, clock, estVars, start_time, timestamp,
                   voltage, raw, var, total_samples, reads, interrupted, chanVars, wrVars>>

\* mutant: the interrupt handler goes straight to the join
Interrupt_NoStop ==
    /\ spc \in {"poll", "put", "count"}
    /\ spc' = "join"
    /\ interrupted' = TRUE
    /\ UNCHANGED <<cfgVars, clock, estVars, start_time, next_time,
                   timestamp, voltage, raw, var, sample_count, total_samples,
                   reads, chanVars, wrVars>>

\* KeyboardInterrupt anywhere in the try block, lines 134-176
Interrupt ==
    /\ spc \in {"poll", "put", "count"}
    /\ spc' = "stop"
    /\ interrupted' = TRUE
    /\ UNCHANGED <<cfgVars, clock, estVars, start_time, next_time,
                   timestamp, voltage, raw, var, sample_count, total_samples,
                   reads, chanVars, wrVars>>

\* line 178: queue.put(stop_signal)
SamplerStop ==
    /\ spc = "stop"
    /\ ~PutBlocks(queue)
    /\ queue' = Append(queue, stop_signal)
    /\ sent' = Append(sent, stop_signal)
    /\ spc' = "join"
    /\ UNCHANGED <<cfgVars, clock, estVars, start_time, next_time,
                   timestamp, voltage, raw, var, sample_count, total_samples,
                   reads, interrupted, wrVars>>

\* lines 179-186: writer_thread.join(), then the final report; the report
\* formats timestamp, which is unbound when no tick was ever taken
SamplerJoin ==
    /\ spc = "join"
    /\ wpc \in {"done", "failed"}
    /\ spc' = IF timestamp = Unbound THEN "crashed" ELSE "done"
    /\ UNCHANGED <<cfgVars, clock, estVars, start_time, next_time,
                   timestamp, voltage, raw, var, sample_count, total_samples,
                   reads, interrupted, chanVars, wrVars>>

\* ----------------------------------------------------------------- Writer
\* datetime.now().strftime("%Y%m%d_%H%M%S"): the wall-clock second
Suffix(t) == t \div TicksPerSec

\* mutant: the rotate_minutes > 0 test left out
RotationDue_NoGuard(t, next_rotate, rot) == t >= next_rotate

\* mutant: the rotation comes one tick early
RotationDue_Early(t, next_rotate, rot) == t + 1 >= next_rotate /\ RLt(RZero, rot)

\* time.perf_counter() >= next_rotate_time and rotate_minutes > 0
RotationDue(t, next_rotate, rot) == t >= next_rotate /\ RLt(RZero, rot)

\* the row of line 119
Row(it) == [id |-> it.id,
            Timestamp_s |-> FormatFixed(Rat(it.timestamp, TicksPerSec), 6),
            Voltage_V |-> FormatFixed(it.voltage, 6),
            Raw_ADC |-> it.raw,
            Rolling_Variance |-> FormatFixed(it.var, 8)]

\* the Writer's files:
\* w = [csvfile, files, opened, opened_at, unclosed, next_rotate_time]
WriterFiles == [csvfile |-> csvfile, files |-> files, opened |-> opened,
                opened_at |-> opened_at,
                unclosed |-> unclosed, next_rotate_time |-> next_rotate_time]

\* mutant: next_rotate_time not reset when a file is opened
open_new_file_NoReset(w, t, rot, ok) ==
    LET closed == w.unclosed \ {w.csvfile}
        filename == Suffix(t)
        k == Len(w.opened) + 1
    IN  IF ok
        THEN [csvfile |-> k,
              files |-> (filename :> <<>>) @@ w.files,
              opened |-> Append(w.opened, filename),
              opened_at |-> Append(w.opened_at, t),
              unclosed |-> closed \cup {k},
              next_rotate_time |-> w.next_rotate_time]
        ELSE [w EXCEPT !.unclosed = closed]

\* open_new_file at time t, lines 99-108; ok = FALSE: open() or the header
\* write raises, after the close of the current file
open_new_file(w, t, rot, ok) ==
    LET closed == w.unclosed \ {w.csvfile}      \* if csvfile: csvfile.close()
        filename == Suffix(t)
        k == Len(w.opened) + 1
    IN  IF ok
        THEN [csvfile |-> k,
              files |-> (filename :> <<>>) @@ w.files,      \* mode 'w' truncates
              opened |-> Append(w.opened, filename),
              opened_at |-> Append(w.opened_at, t),
              unclosed |-> closed \cup {k},
              next_rotate_time |-> t + RotateDelay(rot)]
        ELSE [w EXCEPT !.unclosed = closed]

\* writer.writerow(row) on the current file
writerow(w, row) ==
    [w EXCEPT !.files[w.opened[w.csvfile]] = Append(@, row)]

SetWriterFiles(w) ==
    /\ csvfile' = w.csvfile /\ files' = w.files /\ opened' = w.opened
    /\ opened_at' = w.opened_at
    /\ unclosed' = w.unclosed /\ next_rotate_time' = w.next_rotate_time

\* lines 94-110: the thread starts and opens the first file
WriterStart ==
    /\ wpc = "start"
    /\ \E ok \in BOOLEAN :
          /\ SetWriterFiles(open_new_file(WriterFiles, clock, rotate_minutes, ok))
          /\ wpc' = IF ok THEN "get" ELSE "failed"
    /\ UNCHANGED <<cfgVars, clock, estVars, smpVars, chanVars, item, written>>

\* mutant: the Writer leaves as soon as the stop signal is anywhere in the
\* queue, whatever is queued before it
WriterGet_StopFirst ==
    /\ wpc = "get"
    /\ queue # <<>>
    /\ LET stop == \E i \in DOMAIN queue : queue[i] = stop_signal
       IN  /\ item' = IF stop THEN stop_signal ELSE Head(queue)
           /\ queue' = IF stop THEN <<>> ELSE Tail(queue)
           /\ IF stop
              THEN /\ wpc' = "done"
                   /\ unclosed' = unclosed \ {csvfile}
              ELSE /\ wpc' = "write"
                   /\ UNCHANGED unclosed
    /\ UNCHANGED <<cfgVars, clock, estVars, smpVars, sent, next_rotate_time,
                   csvfile, files, opened, opened_at, written>>

\* lines 113-115 and 122-123: the blocking get; on the stop signal, close
WriterGet ==
    /\ wpc = "get"
    /\ queue # <<>>
    /\ item' = Head(queue)
    /\ queue' = Tail(queue)
    /\ IF Head(queue) = stop_signal
       THEN /\ wpc' = "done"
            /\ unclosed' = unclosed \ {csvfile}
       ELSE /\ wpc' = "write"
            /\ UNCHANGED unclosed
    /\ UNCHANGED <<cfgVars, clock, estVars, smpVars, sent, next_rotate_time,
                   csvfile, files, opened, opened_at, written>>

\* lines 116-120: rotate when due, then writer.writerow;
\* ok_open / ok_write = FALSE: that call raises
WriterWrite ==
    /\ wpc = "write"
    /\ LET due == RotationDue(clock, next_rotate_time, rotate_minutes)
       IN  \E ok_open \in (IF due THEN BOOLEAN ELSE {TRUE}), ok_write \in BOOLEAN :
              LET w1 == IF due
                        THEN open_new_file(WriterFiles, clock, rotate_minutes, ok_open)
                        ELSE WriterFiles
              IN  /\ ok_open \/ ok_write
                  /\ IF ok_open /\ ok_write
                     THEN /\ SetWriterFiles(writerow(w1, Row(item)))
                          /\ written' = Append(written, Row(item))
                          /\ wpc' = "get"
                     ELSE /\ SetWriterFiles(w1)
                          /\ wpc' = "failed"
                          /\ UNCHANGED written
    /\ UNCHANGED <<cfgVars, clock, estVars, smpVars, chanVars, item>>

\* ------------------------------------------------------------ specification
Next ==
    \/ Tick
    \/ Construct
    \/ RecordStart
    \/ SamplerPoll
    \/ SamplerPut
    \/ SamplerCount
    \/ Interrupt
    \/ SamplerStop
    \/ SamplerJoin
    \/ WriterStart
    \/ WriterGet
    \/ WriterWrite

Spec == Init /\ [][Next]_vars

\* ------------------------------------------- the Estimator on its own
\* The estimator of lines 143-161 driven by arbitrary voltage sequences
\* (and by None, the result of a failed read) for every capacity up to MaxCap.
InitEst ==
    /\ frequency = 1 /\ duration = TicksPerSec /\ variance_window = TicksPerSec
    /\ rotate_minutes = RZero
    /\ clock = 0
    /\ variance_samples \in 0..MaxCap
    /\ IdleEstimator
    /\ spc = "estimator"
    /\ IdleSampler
    /\ queue = <<>> /\ sent = <<>>
    /\ IdleWriter

EstIngest ==
    /\ spc = "estimator"
    /\ Len(fed) < MaxFeed
    /\ \E x \in Voltages \cup {NoValue} :
          LET e == Ingest(EstState, x, variance_samples)
          IN  /\ voltage' = x
              /\ n' = e.n /\ mean' = e.mean /\ M2' = e.M2
              /\ voltage_buffer' = e.buf
              /\ IF e.ok
                 THEN /\ var' = calculate_variance(e.n, e.M2)
                      /\ fed' = Append(fed, x)
                      /\ UNCHANGED spc
                 ELSE /\ spc' = "crashed"
                      /\ UNCHANGED <<var, fed>>
    /\ UNCHANGED <<cfgVars, clock, variance_samples, start_time, next_time,
                   timestamp, raw, sample_count, total_samples, reads, interrupted,
                   chanVars, wrVars>>

NextEst == EstIngest

SpecEst == InitEst /\ [][NextEst]_vars

\* ------------------------------------- the Writer under a synthetic clock
\* Samples are fed at the Sampler's cadence (one per sample_interval) for
\* RotSpan of the clock, each written at the time it is fed, with
\* rotate_minutes = 1; then the stop signal.
RotSpan == (7 * SEC_PER_MIN * TicksPerSec) \div 2       \* 3.5 minutes

InitRot ==
    /\ frequency \in {1, 2, 3}
    /\ duration = RotSpan /\ variance_window = TicksPerSec
    /\ rotate_minutes = RInt(1)
    /\ clock = 0
    /\ variance_samples = 0
    /\ IdleEstimator
    /\ spc = "feeding"
    /\ IdleSampler
    /\ queue = <<>> /\ sent = <<>>
    /\ wpc = "start" /\ NoWriterFiles

\* feed the sample that is due, stamped with the synthetic clock
RotFeed ==
    /\ spc = "feeding"
    /\ wpc = "get" /\ queue = <<>>
    /\ ~RLt(RInt(clock), next_time)
    /\ LET r == SourceCode(reads + 1)
           it == [id |-> Len(sent) + 1,
                  timestamp |-> Timestamp(clock, start_time),
                  voltage |-> VoltageOf(r), raw |-> r, var |-> var]
       IN  /\ reads' = reads + 1
           /\ raw' = r /\ voltage' = it.voltage /\ timestamp' = it.timestamp
           /\ queue' = Append(queue, it) /\ sent' = Append(sent, it)
    /\ sample_count' = sample_count + 1
    /\ next_time' = RAdd(next_time, sample_interval)
    /\ UNCHANGED <<cfgVars, clock, estVars, spc, start_time, var,
                   total_samples, interrupted, wrVars>>

\* the synthetic clock moves on once the Writer has caught up
RotTick ==
    /\ spc = "feeding"
    /\ wpc = "get" /\ queue = <<>>
    /\ RLt(RInt(clock), next_time)
    /\ clock < RotSpan
    /\ clock' = clock + 1
    /\ UNCHANGED <<cfgVars, estVars, smpVars, chanVars, wrVars>>

\* the span is over: the stop signal
RotStop ==
    /\ spc = "feeding"
    /\ wpc = "get" /\ queue = <<>>
    /\ RLt(RInt(clock), next_time)
    /\ clock = RotSpan
    /\ queue' = Append(queue, stop_signal)
    /\ sent' = Append(sent, stop_signal)
    /\ spc' = "fed"
    /\ UNCHANGED <<cfgVars, clock, estVars, start_time, next_time, timestamp,
                   voltage, raw, var, sample_count, total_samples, reads, interrupted,
                   wrVars>>

NextRot ==
    \/ RotFeed
    \/ RotTick
    \/ RotStop
    \/ WriterStart
    \/ WriterGet
    \/ WriterWrite

SpecRot == InitRot /\ [][NextRot]_vars

\* ------------------------------------------------------------------- claims

Range(s) == {s[i] : i \in DOMAIN s}

\* the Samples of a Channel history, the stop signal left out
SamplesOf(s) == SelectSeq(s, LAMBDA it : it # stop_signal)
RowsOf(s) == [k \in 1..Len(s) |-> Row(s[k])]

\* the places on disk that hold the row of the sample with this id
PlacesOf(k) == {<<f, i>> \in UNION {{f} \X DOMAIN files[f] : f \in DOMAIN files} :
                    files[f][i].id = k}

\* C1: once at least variance_samples (>= 1) voltages have been ingested,
\* the variance the Estimator returns equals the population variance of the
\* last variance_samples voltages, computed from scratch.
C1_WindowVariance ==
    (variance_samples >= 1 /\ Len(fed) >= variance_samples)
        => var = PopVar(LastN(fed, variance_samples))

\* C2: when the Writer exits on the stop signal it has performed exactly
\* one row write for each sample enqueued before the signal, in enqueue order.
C2_ShutdownDrain ==
    wpc = "done" => written = RowsOf(SamplesOf(sent))

C2_Witness ==
    wpc = "done" /\ Len(written) >= 2 /\ Len(SamplesOf(sent)) = Len(written)

\* C3: when the Writer has drained the Channel and exited, every sample that
\* was enqueued is present as exactly one row in exactly one file on disk.
C3_EverySampleOnDisk ==
    wpc = "done" =>
        \A k \in 1..Len(SamplesOf(sent)) : Cardinality(PlacesOf(k)) = 1

\* C4: with rotate_minutes = 1 and samples written at the sampling cadence
\* over 3.5 minutes, exactly 4 files are opened: the first one and one at the
\* first sample written at or after each elapsed minute.
C4_FourFiles ==
    (spc = "fed" /\ wpc = "done") =>
        opened = <<0, SEC_PER_MIN, 2 * SEC_PER_MIN, 3 * SEC_PER_MIN>>

C4_Witness ==
    /\ spc = "fed" /\ wpc = "done"
    /\ Len(written) >= 3 * SEC_PER_MIN
    /\ written[Len(written)].Timestamp_s = FormatFixed(Rat(RotSpan, TicksPerSec), 6)

\* C5: with rotate_minutes = 0 at most one file is ever opened, and exactly
\* one when the Writer has run to its end, however many samples were written
\* and whenever.
C5_SingleFile ==
    rotate_minutes = RZero =>
        /\ Len(opened) <= 1
        /\ wpc \in {"get", "write", "done"} => Len(opened) = 1

C5_Witness ==
    /\ rotate_minutes = RZero /\ wpc = "done"
    /\ Len(written) >= 3 /\ clock >= TicksPerSec

\* C6: the timestamps of the samples put on the Channel are non-decreasing
\* in enqueue order.
C6_TimestampsMonotonic ==
    LET s == SamplesOf(sent)
    IN  \A i, j \in 1..Len(s) : i <= j => s[i].timestamp <= s[j].timestamp

C6_Witness ==
    LET s == SamplesOf(sent)
    IN  /\ Len(s) >= 3
        /\ s[1].timestamp < s[2].timestamp
        /\ s[2].timestamp = s[3].timestamp

\* the Signal Source was ideal so far: the k-th sample was taken less than
\* one interval after its scheduled time (k - 1) * interval
Ideal ==
    LET s == SamplesOf(sent)
    IN  \A k \in 1..Len(s) :
            RLt(RInt(s[k].timestamp), RMul(RInt(k), sample_interval))

\* C7: under an ideal Signal Source and with no interrupt, a run with
\* frequency f > 0 and duration d > 0 ends with f*d +/- 1 samples.
C7_SampleCount ==
    (/\ frequency > 0 /\ duration > 0
     /\ spc \in {"stop", "join", "done"} /\ ~interrupted
     /\ Ideal)
        => Abs(Len(SamplesOf(sent)) * TicksPerSec - frequency * duration)
               <= TicksPerSec

C7_Witness ==
    /\ frequency > 1 /\ duration > TicksPerSec
    /\ spc = "done" /\ ~interrupted /\ Ideal
    /\ Len(SamplesOf(sent)) >= 2

\* C8: inside the acquisition loop the Sampler's step is enabled whatever the
\* Writer's position and the Channel's length; the Writer's get is disabled
\* while the Channel is empty.
SamplerStep == SamplerPoll \/ SamplerPut \/ SamplerCount

C8_SamplerNeverWaits ==
    /\ spc \in {"poll", "put", "count"} => ENABLED SamplerStep
    /\ (wpc = "get" /\ queue = <<>>) => ~ENABLED WriterGet

C8_Witness ==
    /\ spc = "put" /\ Len(queue) >= 1 /\ wpc = "write"

\* C9: in a run with a valid configuration, once the Writer has failed the
\* Sampler performs no further Signal Source read and does not go on to
\* report completion.
C9_FailurePropagates ==
    [][(ValidConfig /\ wpc = "failed") => (reads' = reads /\ spc' # "done")]_vars

\* C10: for a configuration with frequency <= 0, duration <= 0,
\* variance_window <= 0 or rotate_minutes < 0, no Signal Source read is
\* performed and no output file is opened.
C10_InvalidConfigRejected ==
    ~ValidConfig => (reads = 0 /\ opened = <<>>)

\* C11: in a run with a valid configuration, a tick whose Signal Source read
\* fails (the read returns None) leaves the Estimator's state (n, mean, M2,
\* voltage_buffer) and the Channel as they were before the tick.
ReadFailed == reads' = reads + 1 /\ raw' = NoCode

C11_FailedReadChangesNothing ==
    [][(ValidConfig /\ ReadFailed) =>
          /\ <<n, mean, M2, voltage_buffer>>' = <<n, mean, M2, voltage_buffer>>
          /\ <<queue, sent>>' = <<queue, sent>>]_vars

\* C12: in a run with a valid configuration whose loop was ended by an
\* interrupt, once the Sampler has returned from the join it completes the
\* final report (it does not crash), and the count it reports equals the
\* number of samples put on the Channel.
C12_InterruptedReport ==
    (ValidConfig /\ interrupted /\ spc \in {"done", "crashed"}) =>
        /\ spc = "done"
        /\ sample_count = Len(SamplesOf(sent))

\* C13: in a run with a valid configuration and rotate_minutes > 0, the
\* names given to open() are pairwise distinct: a newly opened file never
\* takes the name of a file opened earlier in the run.
C13_DistinctFileNames ==
    (ValidConfig /\ RLt(RZero, rotate_minutes)) =>
        \A i, j \in DOMAIN opened : i # j => opened[i] # opened[j]

\* C14: while no more than variance_samples voltages have been ingested
\* (every ingest so far took the filling branch), the variance returned by
\* the last ingest equals the population variance of all voltages ingested
\* so far, and it is zero when at most one voltage was ingested.
C14_FillingVariance ==
    (1 <= Len(fed) /\ Len(fed) <= variance_samples) =>
        /\ var = PopVar(fed)
        /\ Len(fed) <= 1 => var = RZero

C14_Witness ==
    /\ Len(fed) = 3 /\ variance_samples = 3
    /\ fed[1] # fed[2] /\ fed[2] # fed[3] /\ fed[1] # fed[3]
    /\ var = PopVar(fed) /\ var # RZero

\* the time the schedule gives to the sample with 0-based index k
ScheduledAt(k) == RAdd(RInt(start_time), RMul(RInt(k), sample_interval))

\* C15: whenever the Sampler is back at the top of its loop after k samples,
\* next_time equals start_time + k * sample_interval, however late any
\* earlier sample was taken; and the read of the sample with 0-based index k
\* never happens at a clock value below start_time + k * sample_interval.
C15_AdditiveSchedule ==
    [][/\ spc' = "poll" =>
            /\ reads' = sample_count'
            /\ next_time' = RAdd(RInt(start_time'),
                                 RMul(RInt(sample_count'), sample_interval))
       /\ reads' = reads + 1 => ~RLt(RInt(clock), ScheduledAt(reads))]_vars

\* two samples taken, the second one late, and the schedule now behind the
\* clock: the next sample is due at once, no tick is skipped
C15_Witness ==
    LET s == SamplesOf(sent)
    IN  /\ spc = "poll" /\ sample_count = 2 /\ Len(s) = 2
        /\ RLt(sample_interval, RInt(s[2].timestamp))
        /\ next_time = ScheduledAt(2)
        /\ RLt(next_time, RInt(clock))

\* rotate_minutes * 60.0 seconds, in ticks
RotationInterval == RMul(rotate_minutes, RInt(SEC_PER_MIN * TicksPerSec))

\* this step closes the Writer's current file
ClosesFile == csvfile \in unclosed /\ csvfile \notin unclosed'

\* C16: in the step that handles a sample (rotation test, then the row), the
\* Writer closes the current file iff rotate_minutes > 0 and the clock is at
\* least rotate_minutes * 60 s past the time the file was opened; when the
\* step succeeds the new file is opened at the current time and receives the
\* row, and otherwise the row goes to the current file.  Two successive
\* opens are never closer than the rotation interval, and a file is opened
\* after the first one only in a step that holds a sample.
C16_RotationPolicy ==
    [][/\ (wpc = "write" /\ wpc' # "write") =>
            LET due == /\ RLt(RZero, rotate_minutes)
                       /\ ~RLt(RInt(clock - opened_at[Len(opened_at)]),
                               RotationInterval)
            IN  /\ ClosesFile <=> due
                /\ wpc' = "get" =>
                      /\ opened_at' = IF due THEN Append(opened_at, clock)
                                      ELSE opened_at
                      /\ files'[opened'[Len(opened')]]
                            = Append(IF due THEN <<>>
                                     ELSE files[opened[Len(opened)]], Row(item))
       /\ \A i \in 2..Len(opened_at') :
             ~RLt(RInt(opened_at'[i] - opened_at'[i - 1]), RotationInterval)
       /\ (opened_at # <<>> /\ opened_at' # opened_at) =>
             (wpc = "write" /\ item \in Range(sent) \ {stop_signal})]_vars

\* a run with a 1 s rotation interval: a row written to the first file
\* before the interval had elapsed, then a rotation and a row in the second
C16_Witness ==
    /\ rotate_minutes = Rat(1, SEC_PER_MIN) /\ wpc = "get"
    /\ Len(opened_at) = 2 /\ Len(written) = 2
    /\ opened_at[2] - opened_at[1] > TicksPerSec
    /\ Len(files[opened[1]]) = 1 /\ Len(files[opened[2]]) = 1

\* the number of stop signals put on the Channel so far
StopsSent == Len(SelectSeq(sent, LAMBDA it : it = stop_signal))

\* C17: the stop signal is put on the Channel at most once and nothing is
\* put after it; when the loop has ended (duration, sample count or
\* interrupt) the put of the stop signal is the Sampler's next step and
\* cannot block, and once the Sampler is past it the Channel's history holds
\* exactly one stop signal, as its last item.
C17_StopSignalLast ==
    /\ StopsSent <= 1
    /\ \A i \in DOMAIN sent : sent[i] = stop_signal => i = Len(sent)
    /\ spc = "stop" => (StopsSent = 0 /\ ENABLED SamplerStop)
    /\ spc \in {"join", "done"} => StopsSent = 1

\* an interrupted run that had put two samples, now past the stop signal
C17_Witness ==
    /\ spc = "join" /\ interrupted
    /\ Len(sent) = 3 /\ sent[3] = stop_signal
    /\ sample_count = 2

\* C18: in a run with a valid configuration, when the Sampler has reported
\* its final summary the Writer has exited, has written the row of every
\* sample put on the Channel, in order, and has no file open.
C18_ReportAfterDrain ==
    (ValidConfig /\ spc = "done") =>
        /\ wpc = "done"
        /\ written = RowsOf(SamplesOf(sent))
        /\ unclosed = {}

\* C19: after every ingest of a voltage, in the filling and in the
\* full-window regime, the ring buffer is not empty and self.mean equals the
\* arithmetic mean of the values it holds.
C19_MeanOfRing ==
    (spc = "estimator" /\ Len(fed) >= 1) =>
        /\ voltage_buffer # <<>>
        /\ mean = ArithMean(voltage_buffer)

\* full-window regime: capacity 2, four voltages ingested, two evicted
C19_Witness ==
    /\ spc = "estimator" /\ variance_samples = 2 /\ Len(fed) = 4
    /\ voltage_buffer = <<fed[3], fed[4]>>
    /\ fed[1] # fed[3] /\ fed[2] # fed[4] /\ fed[3] # fed[4]
    /\ mean = ArithMean(voltage_buffer)

\* C20: after every ingest of a voltage, for every capacity and input
\* sequence, self.M2 is not negative, and neither is the variance returned.
C20_M2NonNegative ==
    (spc = "estimator" /\ Len(fed) >= 1) =>
        /\ ~RLt(M2, RZero)
        /\ ~RLt(var, RZero)

\* C21: in a run with frequency > 0 and duration > 0 the number of samples
\* put on the Channel never exceeds int(duration * frequency); and the loop
\* goes on to another tick only while the elapsed time is below duration and
\* the sample count is below int(duration * frequency).
C21_SampleCap ==
    (frequency > 0 /\ duration > 0) =>
        /\ Len(SamplesOf(sent)) <= IntTimesFreq(duration, frequency)
        /\ (spc = "poll" /\ sample_count >= 1) =>
              /\ timestamp < duration
              /\ sample_count < IntTimesFreq(duration, frequency)

\* C22: in a run with a valid configuration the Writer never has more than
\* one file open, and once it has ended, on the stop signal or on a failure,
\* no file is left open.
C22_OneOpenFile ==
    ValidConfig =>
        /\ Cardinality(unclosed) <= 1
        /\ wpc \in {"done", "failed"} => unclosed = {}

C24_IngestCompletes ==
    [][(ValidConfig /\ reads' = reads + 1 /\ raw' # NoCode) =>
          /\ spc' = "put"
          /\ 0 <= n' /\ n' <= variance_samples]_vars

====
